---- MODULE Spec2Model ----
(***************************************************************************)
(* The Wayland server core of src/wayland/mod.rs: construction             *)
(* (Wayland::new), the dispatch loop task (Wayland::start_loop), the       *)
(* per-frame calls of the render thread (update, frame_event), teardown    *)
(* (Drop), the process-wide destroy queue and the serial counter.          *)
(***************************************************************************)
EXTENDS Integers, Sequences, FiniteSets, TLC

\* ---------------------------------------------------------------- bounds

\* Events the environment of the server contributes in a run of Spec or CtorSpec:
\* calls of Wayland::new, update() and frame_event(), connections, bursts of client
\* traffic, surfaces registered.
MaxEvents == 5
\* The same for a run of QueueSpec (connections and bursts of client traffic).
MaxQueueEvents == 3
\* The same for a run of ScenarioSpec.
MaxScenarioEvents == 2
\* The same for a run of LockSpec (connections, client traffic, new surfaces and
\* calls of the render thread).
MaxLockEvents == 4
\* Destroy requests the producers make in a run of Spec.
MaxHandles == 2
\* Destroy requests the producers make in a run of QueueSpec (more than the
\* channel's capacity, so that a send meets a full queue).
MaxQueueHandles == 10
\* Producer tasks that may send at the same time.
NumProducers == 2
\* Surfaces the collaborators may register in CORE_SURFACES.
MaxSurfaces == 2
\* Callers of the serial counter, and inc() calls made in a run of SerialSpec.
NumCallers == 2
MaxSerialCalls == 4

\* ------------------------------------------------------ program constants

\* Mutant of QueueCapacity: the channel is created one slot too large.
QueueCapacityOffByOne == 8 + 1

\* mpsc::channel(8)
QueueCapacity == 8
\* ListeningSocket::bind_auto("wayland", 0..33): candidates wayland-0 .. wayland-32
SocketRangeEnd == 33
\* CounterU32: the counter is a u32, kept here as two 16-bit limbs <<high, low>>
LimbBits == 16

LimbModulus == 2 ^ LimbBits
SocketCandidates == 0 .. (SocketRangeEnd - 1)
Producers == 1 .. NumProducers
Surfaces == 1 .. MaxSurfaces
Callers == 1 .. NumCallers

VARIABLES
    \* process-wide statics
    GLOBAL_DESTROY_QUEUE,  \* the OnceCell: 0 when empty, else the number of the
                           \* Wayland::new call whose sender it holds
    SERIAL_COUNTER,        \* the CounterU32's value
    \* environment of construction
    taken,                 \* candidate socket indexes already bound by others
    newCalls,              \* calls of Wayland::new made so far
    newResult,             \* what the last call of Wayland::new did
    \* the Wayland value
    socket_name,           \* index of the bound candidate, -1 when none
    join_handle,           \* "none", "live" (Wayland owned by the host), "aborted"
    \* the loop task
    loopPc,                \* position of the task
    loopErr,               \* the Err the task returned, "none" when none
    rxAlive,               \* the mpsc::Receiver of the installed channel exists
    fdCloses,              \* close() calls made on the listening socket's descriptor
    global_destroy_queue,  \* the channel's buffer
    curHandle,             \* the handle recv() yielded, 0 when none
    curClient,             \* the client just inserted, 0 when none
    ready,                 \* the dispatch poll fd is readable
    displayLock,           \* holder of the display mutex: "free", "loop", "render"
    stateLock,             \* holder of the state mutex
    \* protocol engine
    registryRemoved,       \* remove_global calls, in order
    backlog,               \* connections waiting in the listening socket
    accepted,              \* connections accept() returned Ok for
    clients,               \* client identities insert_client produced
    notified,              \* new_client notifications, in order
    rounds,                \* dispatch rounds: <<dispatch_clients, flush_clients, clear_ready>> counts
    output,                \* WaylandState.output: the version of the output configuration
    \* producers of destroy requests
    ppc,                   \* per producer: "idle", "blocked"
    pending,               \* per producer: the handle of its blocked send, 0 when none
    blockedAt,             \* per producer: entries consumed when its send last
                           \* suspended, -1 when it never did
    enqLog,                \* handles in the order they entered the queue
    nextHandle,            \* next GlobalId a producer will ask to destroy
    handleBudget,          \* destroy requests of the run
    sendErrs,              \* sends that returned Err (channel closed)
    \* connections and traffic
    nextConn,              \* next connection to arrive
    eventsLeft,            \* environment events left in the run
    \* render thread
    rpc,                   \* position of the render thread
    CORE_SURFACES,         \* the live-surface registry
    snap,                  \* get_valid_contents() of the call in progress
    todo,                  \* entries the for loop has not visited yet
    visits,                \* per surface: process/frame calls of the last call
    frameOut,              \* output versions the frame calls of the last call passed
    \* serial callers
    spc,                   \* per caller: its position, the returns that preceded its
                           \* call, the value it fetched
    sret                   \* completed inc() calls in order of return: the value and
                           \* the number of calls that had returned when it was made

ctorVars == <<GLOBAL_DESTROY_QUEUE, taken, newCalls, newResult, socket_name, join_handle>>
loopVars == <<loopPc, loopErr, rxAlive, fdCloses, global_destroy_queue, curHandle,
              curClient, ready, displayLock, stateLock>>
engineVars == <<registryRemoved, backlog, accepted, clients, notified, rounds, output>>
producerVars == <<ppc, pending, blockedAt, enqLog, nextHandle, handleBudget, sendErrs>>
envVars == <<nextConn, eventsLeft>>
renderVars == <<rpc, CORE_SURFACES, snap, todo, visits, frameOut>>
serialVars == <<SERIAL_COUNTER, spc, sret>>

vars == <<ctorVars, loopVars, engineVars, producerVars, envVars, renderVars, serialVars>>

\* ------------------------------------------------------------ construction

\* get_sk_egl: Err unless the host's graphics backend is EGL/GLES.
get_sk_egl(backendIsEgl) == IF backendIsEgl THEN "ok" ELSE "err_egl"

\* Mutant of bind_auto: among the candidates that are free the last one is taken.
bind_auto_last(tk) ==
    IF SocketCandidates \subseteq tk
    THEN -1
    ELSE CHOOSE i \in SocketCandidates \ tk : \A j \in SocketCandidates \ tk : j <= i

\* ListeningSocket::bind_auto("wayland", 0..33): the candidates are tried in
\* increasing order; the first one that is not bound yet wins, -1 when none is left.
bind_auto(tk) ==
    IF SocketCandidates \subseteq tk
    THEN -1
    ELSE CHOOSE i \in SocketCandidates \ tk : \A j \in SocketCandidates \ tk : i <= j

\* Mutant of OnceCellSet: the cell is assigned, whatever it holds.
OnceCellAssign(cell) == "ok"

\* GLOBAL_DESTROY_QUEUE.set(sender): Ok only while the cell is empty.
OnceCellSet(cell) == IF cell = 0 THEN "ok" ELSE "err"

\* The values that own the listening socket's descriptor: the ListeningSocket of
\* bind_auto, moved into the task as _socket, and the std UnixListener that
\* from_raw_fd(socket.as_raw_fd()) builds on the same descriptor and from_std
\* turns into listen_async. Each closes the descriptor when it is dropped.
ListenFdOwners == {"_socket", "listen_async"}

\* Wayland::new, statement by statement: where the call ends.
NewResult(backendIsEgl, rendererOk, displayOk, loopSetupOk) ==
    IF get_sk_egl(backendIsEgl) # "ok" THEN "err_egl"
    ELSE IF ~rendererOk THEN "err_renderer"
    ELSE IF ~displayOk THEN "err_display"
    ELSE IF OnceCellSet(GLOBAL_DESTROY_QUEUE) # "ok" THEN "panic"
    ELSE IF bind_auto(taken) = -1 THEN "err_bind"
    ELSE IF ~loopSetupOk THEN "err_loop"
    ELSE "ok"

\* The results of Wayland::new that ran past the install of the sender.
PastInstall == {"err_bind", "err_loop", "ok"}
NewErrors == {"err_egl", "err_renderer", "err_display", "err_bind", "err_loop"}

\* Wayland::new as one call.
New ==
    /\ eventsLeft > 0
    /\ eventsLeft' = eventsLeft - 1
    /\ \E backendIsEgl \in BOOLEAN, rendererOk \in BOOLEAN,
          displayOk \in BOOLEAN, loopSetupOk \in BOOLEAN :
         LET res == NewResult(backendIsEgl, rendererOk, displayOk, loopSetupOk) IN
           /\ newResult' = res
           /\ newCalls' = newCalls + 1
           /\ GLOBAL_DESTROY_QUEUE' =
                  IF res \in PastInstall THEN newCalls + 1 ELSE GLOBAL_DESTROY_QUEUE
           \* the receiver moves into the task; a call that fails drops it
           /\ rxAlive' = IF res \in PastInstall THEN res = "ok" ELSE rxAlive
           \* start_loop returning Err drops its socket argument and the listener
           \* built on the same descriptor
           /\ fdCloses' = IF res = "err_loop" THEN Cardinality(ListenFdOwners) ELSE fdCloses
           /\ socket_name' = IF res = "ok" THEN bind_auto(taken) ELSE socket_name
           /\ join_handle' = IF res = "ok" THEN "live" ELSE join_handle
           /\ loopPc' = IF res = "ok" THEN "select" ELSE loopPc
    /\ UNCHANGED <<taken, loopErr, global_destroy_queue, curHandle, curClient, ready,
                   displayLock, stateLock>>
    /\ UNCHANGED <<engineVars, producerVars, nextConn, renderVars, serialVars>>

\* The render thread is between two calls into the Wayland.
RenderIdle == rpc \in {"idle", "updated", "framed"}

\* impl Drop for Wayland: join_handle.abort(). The host owns the Wayland and drops
\* it between its calls (or while unwinding from a panic).
Drop ==
    /\ join_handle = "live"
    /\ RenderIdle \/ rpc = "panicked"
    /\ join_handle' = "aborted"
    /\ UNCHANGED <<GLOBAL_DESTROY_QUEUE, taken, newCalls, newResult, socket_name>>
    /\ UNCHANGED <<loopVars, engineVars, producerVars, envVars, renderVars, serialVars>>

\* ---------------------------------------------------------------- the loop

\* Mutant of LoopEnd: a task that returned an Err is started again.
LoopEndRestarts(pc, err) ==
    /\ loopPc' = IF pc = "failed" THEN "select" ELSE pc
    /\ loopErr' = err
    /\ rxAlive' = (pc = "failed")
    /\ fdCloses' = fdCloses
    /\ curHandle' = 0
    /\ curClient' = 0

\* The task ends: its future is dropped, and with it the receiver and both
\* owners of the listening descriptor.
LoopEnd(pc, err) ==
    /\ loopPc' = pc
    /\ loopErr' = err
    /\ rxAlive' = FALSE
    /\ fdCloses' = fdCloses + Cardinality(ListenFdOwners)
    /\ curHandle' = 0
    /\ curClient' = 0

\* Mutant of LoopCancel: cancellation drains the queue into the registry first.
LoopCancelDrains ==
    /\ join_handle = "aborted"
    /\ loopPc = "select"
    /\ loopPc' = "cancelled"
    /\ rxAlive' = FALSE
    /\ fdCloses' = fdCloses + Cardinality(ListenFdOwners)
    /\ registryRemoved' = registryRemoved \o global_destroy_queue
    /\ global_destroy_queue' = <<>>
    /\ UNCHANGED <<loopErr, curHandle, curClient, ready, displayLock, stateLock>>
    /\ UNCHANGED <<backlog, accepted, clients, notified, rounds, output>>
    /\ UNCHANGED <<ctorVars, producerVars, envVars, renderVars, serialVars>>

\* Mutant of LoopCancel: abort() also stops the task between recv() and
\* remove_global and between insert_client and new_client.
LoopCancelInBody ==
    /\ join_handle = "aborted"
    /\ loopPc \in {"select", "destroy", "notify"}
    /\ LoopEnd("cancelled", loopErr)
    /\ UNCHANGED <<global_destroy_queue, ready, displayLock, stateLock>>
    /\ UNCHANGED <<ctorVars, engineVars, producerVars, envVars, renderVars, serialVars>>

\* abort() takes effect where the task is suspended: at the select. A task that
\* is being polled when abort() is called may still take branches that are ready
\* before it suspends, so the branches stay enabled until this step.
LoopCancel ==
    /\ join_handle = "aborted"
    /\ loopPc = "select"
    /\ LoopEnd("cancelled", loopErr)
    /\ UNCHANGED <<global_destroy_queue, ready, displayLock, stateLock>>
    /\ UNCHANGED <<ctorVars, engineVars, producerVars, envVars, renderVars, serialVars>>

\* Mutant of SenderAlive: the only senders are those of producers that still have
\* a request to make or a send in progress.
SenderHeldByProducers == nextHandle <= handleBudget \/ \E p \in Producers : ppc[p] = "blocked"

\* A sender exists as long as the static holds one.
SenderAlive == GLOBAL_DESTROY_QUEUE # 0

\* Mutant of DestroyRecv: recv() yields the newest entry instead of the oldest.
DestroyRecvLifo ==
    /\ loopPc = "select"
    /\ global_destroy_queue # <<>>
    /\ curHandle' = global_destroy_queue[Len(global_destroy_queue)]
    /\ global_destroy_queue' = SubSeq(global_destroy_queue, 1, Len(global_destroy_queue) - 1)
    /\ loopPc' = "destroy"
    /\ UNCHANGED <<loopErr, rxAlive, fdCloses, curClient, ready, displayLock, stateLock>>
    /\ UNCHANGED <<ctorVars, engineVars, producerVars, envVars, renderVars, serialVars>>

\* global_destroy_queue.recv() resolves: Some(head), or None when the queue is
\* empty and no sender is left; e.unwrap() panics on None.
DestroyRecv ==
    /\ loopPc = "select"
    /\ global_destroy_queue # <<>> \/ ~SenderAlive
    /\ IF global_destroy_queue # <<>>
       THEN /\ curHandle' = Head(global_destroy_queue)
            /\ global_destroy_queue' = Tail(global_destroy_queue)
            /\ loopPc' = "destroy"
            /\ UNCHANGED <<loopErr, rxAlive, fdCloses, curClient>>
       ELSE /\ LoopEnd("panicked", loopErr)
            /\ UNCHANGED global_destroy_queue
    /\ UNCHANGED <<ready, displayLock, stateLock>>
    /\ UNCHANGED <<ctorVars, engineVars, producerVars, envVars, renderVars, serialVars>>

\* Mutant of DestroyRemove: the received handle is logged but never removed.
DestroyRemoveForgets ==
    /\ loopPc = "destroy"
    /\ curHandle' = 0
    /\ loopPc' = "select"
    /\ UNCHANGED <<loopErr, rxAlive, fdCloses, global_destroy_queue, curClient, ready,
                   displayLock, stateLock>>
    /\ UNCHANGED <<ctorVars, engineVars, producerVars, envVars, renderVars, serialVars>>

\* dh1.remove_global(e.unwrap()): no mutex of this module is taken.
DestroyRemove ==
    /\ loopPc = "destroy"
    /\ registryRemoved' = Append(registryRemoved, curHandle)
    /\ curHandle' = 0
    /\ loopPc' = "select"
    /\ UNCHANGED <<loopErr, rxAlive, fdCloses, global_destroy_queue, curClient, ready,
                   displayLock, stateLock>>
    /\ UNCHANGED <<backlog, accepted, clients, notified, rounds, output>>
    /\ UNCHANGED <<ctorVars, producerVars, envVars, renderVars, serialVars>>

\* listen_async.accept() resolves, then stream.into_std() and dh2.insert_client();
\* each `?` returns the Err from the task.
AcceptOutcomes == {"ok", "accept", "convert", "insert"}

AcceptInsert ==
    /\ loopPc = "select"
    /\ backlog # <<>>
    /\ \E out \in AcceptOutcomes :
         /\ backlog' = Tail(backlog)
         /\ accepted' = IF out = "accept" THEN accepted ELSE accepted \cup {Head(backlog)}
         /\ IF out = "ok"
            THEN /\ clients' = clients \cup {Head(backlog)}
                 /\ curClient' = Head(backlog)
                 /\ loopPc' = "notify"
                 /\ UNCHANGED <<loopErr, rxAlive, fdCloses, curHandle>>
            ELSE /\ LoopEnd("failed", out)
                 /\ UNCHANGED clients
    /\ UNCHANGED <<global_destroy_queue, ready, displayLock, stateLock>>
    /\ UNCHANGED <<registryRemoved, notified, rounds, output>>
    /\ UNCHANGED <<ctorVars, producerVars, envVars, renderVars, serialVars>>

\* Mutant of AcceptNotify: the new_client hook is not called.
AcceptNotifySkipped ==
    /\ loopPc = "notify"
    /\ stateLock = "free"
    /\ curClient' = 0
    /\ loopPc' = "select"
    /\ UNCHANGED <<loopErr, rxAlive, fdCloses, global_destroy_queue, curHandle, ready,
                   displayLock, stateLock>>
    /\ UNCHANGED <<ctorVars, engineVars, producerVars, envVars, renderVars, serialVars>>

\* state.lock().new_client(client.id(), &dh2): the guard lives for the statement.
AcceptNotify ==
    /\ loopPc = "notify"
    /\ stateLock = "free"
    /\ notified' = Append(notified, curClient)
    /\ curClient' = 0
    /\ loopPc' = "select"
    /\ UNCHANGED <<loopErr, rxAlive, fdCloses, global_destroy_queue, curHandle, ready,
                   displayLock, stateLock>>
    /\ UNCHANGED <<registryRemoved, backlog, accepted, clients, rounds, output>>
    /\ UNCHANGED <<ctorVars, producerVars, envVars, renderVars, serialVars>>

\* dispatch_poll_listener.readable() resolves; `e?` returns its Err.
DispatchReadable ==
    /\ loopPc = "select"
    /\ ready
    /\ \E ok \in BOOLEAN :
         IF ok
         THEN /\ loopPc' = "d_display"
              /\ UNCHANGED <<loopErr, rxAlive, fdCloses, curHandle, curClient>>
         ELSE LoopEnd("failed", "poll")
    /\ UNCHANGED <<global_destroy_queue, ready, displayLock, stateLock>>
    /\ UNCHANGED <<ctorVars, engineVars, producerVars, envVars, renderVars, serialVars>>

\* let mut display = display.lock();
DispatchLockDisplay ==
    /\ loopPc = "d_display"
    /\ displayLock = "free"
    /\ displayLock' = "loop"
    /\ loopPc' = "d_state"
    /\ UNCHANGED <<loopErr, rxAlive, fdCloses, global_destroy_queue, curHandle, curClient, ready,
                   stateLock>>
    /\ UNCHANGED <<ctorVars, engineVars, producerVars, envVars, renderVars, serialVars>>

\* Mutant of DispatchClients: readiness is cleared before the round, whatever
\* comes of it.
DispatchClientsClearsFirst ==
    /\ loopPc = "d_state"
    /\ stateLock = "free"
    /\ ready' = FALSE
    /\ \E ok \in BOOLEAN :
         IF ok
         THEN /\ rounds' = [rounds EXCEPT ![1] = @ + 1, ![3] = @ + 1]
              /\ \E changed \in BOOLEAN : output' = IF changed THEN output + 1 ELSE output
              /\ loopPc' = "d_flush"
              /\ UNCHANGED <<loopErr, rxAlive, fdCloses, curHandle, curClient, displayLock>>
         ELSE /\ LoopEnd("failed", "dispatch")
              /\ displayLock' = "free"
              /\ UNCHANGED <<rounds, output>>
    /\ UNCHANGED <<global_destroy_queue, stateLock>>
    /\ UNCHANGED <<registryRemoved, backlog, accepted, clients, notified>>
    /\ UNCHANGED <<ctorVars, producerVars, envVars, renderVars, serialVars>>

\* display.dispatch_clients(&mut *state.lock())?: the state guard lives for the
\* statement; on Err the display guard is dropped with the closure's frame.
DispatchClients ==
    /\ loopPc = "d_state"
    /\ stateLock = "free"
    /\ \E ok \in BOOLEAN :
         IF ok
         THEN /\ rounds' = [rounds EXCEPT ![1] = @ + 1]
              \* the request handlers get &mut WaylandState
              /\ \E changed \in BOOLEAN : output' = IF changed THEN output + 1 ELSE output
              /\ loopPc' = "d_flush"
              /\ UNCHANGED <<loopErr, rxAlive, fdCloses, curHandle, curClient, displayLock>>
         ELSE /\ LoopEnd("failed", "dispatch")
              /\ displayLock' = "free"
              /\ UNCHANGED <<rounds, output>>
    /\ UNCHANGED <<global_destroy_queue, ready, stateLock>>
    /\ UNCHANGED <<registryRemoved, backlog, accepted, clients, notified>>
    /\ UNCHANGED <<ctorVars, producerVars, envVars, renderVars, serialVars>>

\* Mutant of DispatchFlush: the display guard of a successful round is kept over
\* the next wait.
DispatchFlushKeepsGuard ==
    /\ loopPc = "d_flush"
    /\ \E ok \in BOOLEAN :
         IF ok
         THEN /\ rounds' = [rounds EXCEPT ![2] = @ + 1, ![3] = @ + 1]
              /\ ready' = FALSE
              /\ loopPc' = "select"
              /\ UNCHANGED <<loopErr, rxAlive, fdCloses, curHandle, curClient, displayLock>>
         ELSE /\ LoopEnd("failed", "flush")
              /\ displayLock' = "free"
              /\ UNCHANGED <<rounds, ready>>
    /\ UNCHANGED <<global_destroy_queue, stateLock, output>>
    /\ UNCHANGED <<registryRemoved, backlog, accepted, clients, notified>>
    /\ UNCHANGED <<ctorVars, producerVars, envVars, renderVars, serialVars>>

\* display.flush_clients()?; the display guard is dropped; guard.clear_ready().
DispatchFlush ==
    /\ loopPc = "d_flush"
    /\ \E ok \in BOOLEAN :
         IF ok
         THEN /\ rounds' = [rounds EXCEPT ![2] = @ + 1, ![3] = @ + 1]
              /\ UNCHANGED output
              /\ ready' = FALSE
              /\ loopPc' = "select"
              /\ UNCHANGED <<loopErr, rxAlive, fdCloses, curHandle, curClient>>
         ELSE /\ LoopEnd("failed", "flush")
              /\ UNCHANGED <<rounds, output, ready>>
    /\ displayLock' = "free"
    /\ UNCHANGED <<global_destroy_queue, stateLock>>
    /\ UNCHANGED <<registryRemoved, backlog, accepted, clients, notified>>
    /\ UNCHANGED <<ctorVars, producerVars, envVars, renderVars, serialVars>>


\* --------------------------------------------------- producers (collaborators)

LoopAlive == loopPc \notin {"none", "failed", "cancelled", "panicked"}

\* Entries the loop has taken out of the queue so far.
Consumed == Len(registryRemoved) + (IF curHandle # 0 THEN 1 ELSE 0)

\* The handle a producer's send carries: a fresh one when the send starts, the
\* pending one when a suspended send is polled again.
SendHandle(p) == IF ppc[p] = "blocked" THEN pending[p] ELSE nextHandle

\* A poll of GLOBAL_DESTROY_QUEUE.get().unwrap().send(id): it returns Err when
\* the receiver is gone, the handle enters the queue when there is room, and the
\* send stays suspended while the queue is full.
Send(p) ==
    /\ SenderAlive
    /\ ppc[p] = "blocked" \/ nextHandle <= handleBudget
    /\ ppc[p] = "blocked" => (~rxAlive \/ Len(global_destroy_queue) < QueueCapacity)
    /\ nextHandle' = IF ppc[p] = "blocked" THEN nextHandle ELSE nextHandle + 1
    /\ IF ~rxAlive
       THEN /\ sendErrs' = sendErrs + 1
            /\ ppc' = [ppc EXCEPT ![p] = "idle"]
            /\ pending' = [pending EXCEPT ![p] = 0]
            /\ UNCHANGED <<global_destroy_queue, enqLog, blockedAt>>
       ELSE IF Len(global_destroy_queue) < QueueCapacity
       THEN /\ global_destroy_queue' = Append(global_destroy_queue, SendHandle(p))
            /\ enqLog' = Append(enqLog, SendHandle(p))
            /\ ppc' = [ppc EXCEPT ![p] = "idle"]
            /\ pending' = [pending EXCEPT ![p] = 0]
            /\ UNCHANGED <<blockedAt, sendErrs>>
       ELSE /\ ppc' = [ppc EXCEPT ![p] = "blocked"]
            /\ pending' = [pending EXCEPT ![p] = nextHandle]
            /\ blockedAt' = [blockedAt EXCEPT ![p] = Consumed]
            /\ UNCHANGED <<global_destroy_queue, enqLog, sendErrs>>
    /\ UNCHANGED handleBudget
    /\ UNCHANGED <<loopPc, loopErr, rxAlive, fdCloses, curHandle, curClient, ready, displayLock,
                   stateLock>>
    /\ UNCHANGED <<ctorVars, engineVars, envVars, renderVars, serialVars>>

\* ------------------------------------------------------------- environment

\* A client process connects to the listening socket.
Connect ==
    /\ LoopAlive
    /\ eventsLeft > 0
    /\ eventsLeft' = eventsLeft - 1
    /\ backlog' = Append(backlog, nextConn)
    /\ nextConn' = nextConn + 1
    /\ UNCHANGED <<registryRemoved, accepted, clients, notified, rounds, output>>
    /\ UNCHANGED <<ctorVars, loopVars, producerVars, renderVars, serialVars>>

\* A client sends requests: the dispatch poll fd becomes readable.
ClientActivity ==
    /\ clients # {}
    /\ ~ready
    /\ eventsLeft > 0
    /\ eventsLeft' = eventsLeft - 1
    /\ ready' = TRUE
    /\ UNCHANGED <<loopPc, loopErr, rxAlive, fdCloses, global_destroy_queue, curHandle, curClient,
                   displayLock, stateLock, nextConn>>
    /\ UNCHANGED <<ctorVars, engineVars, producerVars, renderVars, serialVars>>

\* The surface collaborator registers a surface of a client in CORE_SURFACES.
AddSurface(s) ==
    /\ clients # {}
    /\ s \notin CORE_SURFACES
    /\ eventsLeft > 0
    /\ eventsLeft' = eventsLeft - 1
    /\ CORE_SURFACES' = CORE_SURFACES \cup {s}
    /\ UNCHANGED <<rpc, snap, todo, visits, frameOut, nextConn>>
    /\ UNCHANGED <<ctorVars, loopVars, engineVars, producerVars, serialVars>>

\* A surface dies: its entry is no longer valid.
RemoveSurface(s) ==
    /\ s \in CORE_SURFACES
    /\ CORE_SURFACES' = CORE_SURFACES \ {s}
    /\ UNCHANGED <<rpc, snap, todo, visits, frameOut>>
    /\ UNCHANGED <<ctorVars, loopVars, engineVars, producerVars, envVars, serialVars>>

\* ----------------------------------------------------------- render thread

NoVisits == [s \in Surfaces |-> 0]
NextEntry(S) == CHOOSE s \in S : \A t \in S : s <= t

\* update() is called: CORE_SURFACES.get_valid_contents() is evaluated once.
UpdateCall ==
    /\ join_handle = "live"
    /\ RenderIdle
    /\ eventsLeft > 0
    /\ eventsLeft' = eventsLeft - 1
    /\ snap' = CORE_SURFACES
    /\ todo' = CORE_SURFACES
    /\ visits' = NoVisits
    /\ frameOut' = {}
    /\ rpc' = "update"
    /\ UNCHANGED CORE_SURFACES
    /\ UNCHANGED <<ctorVars, loopVars, engineVars, producerVars, nextConn, serialVars>>

\* Mutant of UpdateProcess: every iteration processes the first entry of the
\* snapshot.
UpdateProcessFirst ==
    /\ rpc = "update"
    /\ todo # {}
    /\ visits' = [visits EXCEPT ![NextEntry(snap)] = @ + 1]
    /\ todo' = todo \ {NextEntry(todo)}
    /\ UNCHANGED <<rpc, CORE_SURFACES, snap, frameOut>>
    /\ UNCHANGED <<ctorVars, loopVars, engineVars, producerVars, envVars, serialVars>>

\* One iteration of update()'s for loop: core_surface.process(sk, &mut renderer).
UpdateProcess ==
    /\ rpc = "update"
    /\ todo # {}
    /\ visits' = [visits EXCEPT ![NextEntry(todo)] = @ + 1]
    /\ todo' = todo \ {NextEntry(todo)}
    /\ UNCHANGED <<rpc, CORE_SURFACES, snap, frameOut>>
    /\ UNCHANGED <<ctorVars, loopVars, engineVars, producerVars, envVars, serialVars>>

\* flush_clients walks the clients: with none there is nothing that can fail.
FlushCanFail == clients # {}

\* self.display.lock().flush_clients().unwrap(): the guard lives for the statement;
\* an Err panics the render thread.
UpdateFlush ==
    /\ rpc = "update"
    /\ todo = {}
    /\ displayLock = "free"
    /\ \E ok \in BOOLEAN :
         /\ ok \/ FlushCanFail
         /\ rpc' = IF ok THEN "updated" ELSE "panicked"
    /\ UNCHANGED <<CORE_SURFACES, snap, todo, visits, frameOut>>
    /\ UNCHANGED <<ctorVars, loopVars, engineVars, producerVars, envVars, serialVars>>

\* frame_event() is called and reaches self.state.lock().
FrameCall ==
    /\ join_handle = "live"
    /\ RenderIdle
    /\ eventsLeft > 0
    /\ eventsLeft' = eventsLeft - 1
    /\ rpc' = "fe_lock"
    /\ UNCHANGED <<CORE_SURFACES, snap, todo, visits, frameOut>>
    /\ UNCHANGED <<ctorVars, loopVars, engineVars, producerVars, nextConn, serialVars>>

\* Mutant of FrameLock: the state guard is a temporary that is dropped before the
\* pass over the surfaces.
FrameLockTemporary ==
    /\ rpc = "fe_lock"
    /\ stateLock = "free"
    /\ snap' = CORE_SURFACES
    /\ todo' = CORE_SURFACES
    /\ visits' = NoVisits
    /\ frameOut' = {}
    /\ rpc' = "frame"
    /\ UNCHANGED CORE_SURFACES
    /\ UNCHANGED <<loopPc, loopErr, rxAlive, fdCloses, global_destroy_queue, curHandle,
                   curClient, ready, displayLock, stateLock>>
    /\ UNCHANGED <<ctorVars, engineVars, producerVars, envVars, serialVars>>

\* The state lock is granted; get_valid_contents() is evaluated once.
FrameLock ==
    /\ rpc = "fe_lock"
    /\ stateLock = "free"
    /\ stateLock' = "render"
    /\ snap' = CORE_SURFACES
    /\ todo' = CORE_SURFACES
    /\ visits' = NoVisits
    /\ frameOut' = {}
    /\ rpc' = "frame"
    /\ UNCHANGED CORE_SURFACES
    /\ UNCHANGED <<loopPc, loopErr, rxAlive, fdCloses, global_destroy_queue, curHandle, curClient,
                   ready, displayLock>>
    /\ UNCHANGED <<ctorVars, engineVars, producerVars, envVars, serialVars>>

\* One iteration of frame_event()'s for loop:
\* core_surface.frame(sk, state.output.clone()).
FrameDeliver ==
    /\ rpc = "frame"
    /\ todo # {}
    /\ visits' = [visits EXCEPT ![NextEntry(todo)] = @ + 1]
    /\ todo' = todo \ {NextEntry(todo)}
    /\ frameOut' = frameOut \cup {output}
    /\ UNCHANGED <<rpc, CORE_SURFACES, snap>>
    /\ UNCHANGED <<ctorVars, loopVars, engineVars, producerVars, envVars, serialVars>>

\* Mutant of FrameReturn: frame_event() takes the display lock, after the state
\* lock, before it returns.
FrameReturnLocksDisplay ==
    /\ rpc = "frame"
    /\ todo = {}
    /\ displayLock = "free"
    /\ stateLock' = "free"
    /\ rpc' = "framed"
    /\ UNCHANGED <<CORE_SURFACES, snap, todo, visits, frameOut>>
    /\ UNCHANGED <<loopPc, loopErr, rxAlive, fdCloses, global_destroy_queue, curHandle,
                   curClient, ready, displayLock>>
    /\ UNCHANGED <<ctorVars, engineVars, producerVars, envVars, serialVars>>

\* frame_event() returns: the state guard is dropped.
FrameReturn ==
    /\ rpc = "frame"
    /\ todo = {}
    /\ stateLock' = "free"
    /\ rpc' = "framed"
    /\ UNCHANGED <<CORE_SURFACES, snap, todo, visits, frameOut>>
    /\ UNCHANGED <<loopPc, loopErr, rxAlive, fdCloses, global_destroy_queue, curHandle, curClient,
                   ready, displayLock>>
    /\ UNCHANGED <<ctorVars, engineVars, producerVars, envVars, serialVars>>

\* ----------------------------------------------------------- serial counter

\* A caller starts SERIAL_COUNTER.inc().
SerialCall(c) ==
    /\ spc[c].pc = "idle"
    /\ Len(sret) + Cardinality({d \in Callers : spc[d].pc # "idle"}) < MaxSerialCalls
    /\ spc' = [spc EXCEPT ![c] = [pc |-> "called", since |-> Len(sret), val |-> <<0, 0>>]]
    /\ UNCHANGED <<SERIAL_COUNTER, sret>>
    /\ UNCHANGED <<ctorVars, loopVars, engineVars, producerVars, envVars, renderVars>>

\* Mutant of WrappingInc: the counter saturates at 2^32 - 1.
SaturatingInc(v) ==
    IF v[2] + 1 < LimbModulus
    THEN <<v[1], v[2] + 1>>
    ELSE IF v[1] + 1 < LimbModulus THEN <<v[1] + 1, 0>> ELSE v

\* v + 1 on a u32: the low limb carries into the high limb, the high limb wraps.
WrappingInc(v) ==
    IF v[2] + 1 < LimbModulus
    THEN <<v[1], v[2] + 1>>
    ELSE <<(v[1] + 1) % LimbModulus, 0>>

\* CounterU32::inc: one atomic fetch-and-add on a u32, which wraps.
SerialInc(c) ==
    /\ spc[c].pc = "called"
    /\ spc' = [spc EXCEPT ![c].pc = "fetched", ![c].val = SERIAL_COUNTER]
    /\ SERIAL_COUNTER' = WrappingInc(SERIAL_COUNTER)
    /\ UNCHANGED sret
    /\ UNCHANGED <<ctorVars, loopVars, engineVars, producerVars, envVars, renderVars>>

\* inc() returns the value it fetched.
SerialReturn(c) ==
    /\ spc[c].pc = "fetched"
    /\ sret' = Append(sret, [value |-> spc[c].val, since |-> spc[c].since])
    /\ spc' = [spc EXCEPT ![c].pc = "idle"]
    /\ UNCHANGED SERIAL_COUNTER
    /\ UNCHANGED <<ctorVars, loopVars, engineVars, producerVars, envVars, renderVars>>


\* ----------------------------------------------------------- specifications

\* Sets of already bound candidates construction is tried against: the first k
\* candidates, and the first k but one.
TakenChoices ==
    {0 .. (k - 1) : k \in 0 .. SocketRangeEnd}
        \cup UNION {{(0 .. (k - 1)) \ {g} : g \in {0, k - 1}} : k \in 1 .. SocketRangeEnd}

\* The process before Wayland::new is called.
Fresh(tk, handles, events, serial) ==
    /\ GLOBAL_DESTROY_QUEUE = 0
    /\ SERIAL_COUNTER = serial
    /\ taken = tk
    /\ newCalls = 0
    /\ newResult = "none"
    /\ socket_name = -1
    /\ join_handle = "none"
    /\ loopPc = "none"
    /\ loopErr = "none"
    /\ rxAlive = FALSE
    /\ fdCloses = 0
    /\ global_destroy_queue = <<>>
    /\ curHandle = 0
    /\ curClient = 0
    /\ ready = FALSE
    /\ displayLock = "free"
    /\ stateLock = "free"
    /\ registryRemoved = <<>>
    /\ backlog = <<>>
    /\ accepted = {}
    /\ clients = {}
    /\ notified = <<>>
    /\ rounds = <<0, 0, 0>>
    /\ output = 0
    /\ ppc = [p \in Producers |-> "idle"]
    /\ pending = [p \in Producers |-> 0]
    /\ blockedAt = [p \in Producers |-> -1]
    /\ enqLog = <<>>
    /\ nextHandle = 1
    /\ handleBudget = handles
    /\ sendErrs = 0
    /\ nextConn = 1
    /\ eventsLeft = events
    /\ rpc = "idle"
    /\ CORE_SURFACES = {}
    /\ snap = {}
    /\ todo = {}
    /\ visits = NoVisits
    /\ frameOut = {}
    /\ spc = [c \in Callers |-> [pc |-> "idle", since |-> 0, val |-> <<0, 0>>]]
    /\ sret = <<>>

LoopNext ==
    \/ DestroyRecv
    \/ DestroyRemove
    \/ AcceptInsert
    \/ AcceptNotify
    \/ DispatchReadable
    \/ DispatchLockDisplay
    \/ DispatchClients
    \/ DispatchFlush
    \/ LoopCancel

RenderNext ==
    \/ UpdateCall
    \/ UpdateProcess
    \/ UpdateFlush
    \/ FrameCall
    \/ FrameLock
    \/ FrameDeliver
    \/ FrameReturn

\* The server: construction, the loop, the render thread, teardown, and their
\* environment. Nothing is bound at the start, or everything is.
Init == \E tk \in {{}, SocketCandidates} : Fresh(tk, MaxHandles, MaxEvents, <<0, 0>>)

Next ==
    \/ New
    \/ Drop
    \/ LoopNext
    \/ RenderNext
    \/ \E p \in Producers : Send(p)
    \/ Connect
    \/ ClientActivity
    \/ \E s \in Surfaces : AddSurface(s)
    \/ \E s \in Surfaces : RemoveSurface(s)

Spec == Init /\ [][Next]_vars

\* The running server under a load of destroy requests that exceeds the queue's
\* capacity; the host makes no frame calls
\* and no further call of Wayland::new. The start is the state a successful
\* Wayland::new leaves.
Running(handles, events) ==
    /\ GLOBAL_DESTROY_QUEUE = 1
    /\ SERIAL_COUNTER = <<0, 0>>
    /\ taken = {}
    /\ newCalls = 1
    /\ newResult = "ok"
    /\ socket_name = 0
    /\ join_handle = "live"
    /\ loopPc = "select"
    /\ loopErr = "none"
    /\ rxAlive = TRUE
    /\ fdCloses = 0
    /\ global_destroy_queue = <<>>
    /\ curHandle = 0
    /\ curClient = 0
    /\ ready = FALSE
    /\ displayLock = "free"
    /\ stateLock = "free"
    /\ registryRemoved = <<>>
    /\ backlog = <<>>
    /\ accepted = {}
    /\ clients = {}
    /\ notified = <<>>
    /\ rounds = <<0, 0, 0>>
    /\ output = 0
    /\ ppc = [p \in Producers |-> "idle"]
    /\ pending = [p \in Producers |-> 0]
    /\ blockedAt = [p \in Producers |-> -1]
    /\ enqLog = <<>>
    /\ nextHandle = 1
    /\ handleBudget = handles
    /\ sendErrs = 0
    /\ nextConn = 1
    /\ eventsLeft = events
    /\ rpc = "idle"
    /\ CORE_SURFACES = {}
    /\ snap = {}
    /\ todo = {}
    /\ visits = NoVisits
    /\ frameOut = {}
    /\ spc = [c \in Callers |-> [pc |-> "idle", since |-> 0, val |-> <<0, 0>>]]
    /\ sret = <<>>

QueueInit == Running(MaxQueueHandles, MaxQueueEvents)

QueueNext ==
    \/ LoopNext
    \/ \E p \in Producers : Send(p)
    \/ Connect
    \/ ClientActivity
    \/ Drop

QueueSpec == QueueInit /\ [][QueueNext]_vars

\* tokio::select! polls its branches from a random start, so a branch that is
\* ready again and again is taken in the end; a branch body is synchronous code
\* and runs on once it can.
LoopFairness ==
    /\ SF_vars(DestroyRecv)
    /\ SF_vars(AcceptInsert)
    /\ SF_vars(DispatchReadable)
    /\ WF_vars(DestroyRemove)
    /\ WF_vars(AcceptNotify)
    /\ WF_vars(DispatchLockDisplay)
    /\ WF_vars(DispatchClients)
    /\ WF_vars(DispatchFlush)

\* Scenario D: the producers make one destroy request more than the queue holds
\* while connections arrive; the select is fair.
ScenarioHandles == QueueCapacity + 1

ScenarioInit == Running(ScenarioHandles, MaxScenarioEvents)

ScenarioSpec == ScenarioInit /\ [][QueueNext]_vars /\ LoopFairness

\* The two threads that take the mutexes: the loop's accept and dispatch branches
\* and the render thread's update() and frame_event(), on a running server.
LockInit == Running(0, MaxLockEvents)

LockNext ==
    \/ AcceptInsert
    \/ AcceptNotify
    \/ DispatchReadable
    \/ DispatchLockDisplay
    \/ DispatchClients
    \/ DispatchFlush
    \/ RenderNext
    \/ Connect
    \/ ClientActivity
    \/ \E s \in Surfaces : AddSurface(s)

\* The select is fair to its branches; both threads are scheduled, so synchronous
\* code runs on once it can; parking_lot's Mutex is eventually fair, so a lock()
\* that finds the mutex free again and again is granted in the end.
LockFairness ==
    /\ SF_vars(AcceptInsert)
    /\ SF_vars(DispatchReadable)
    /\ SF_vars(AcceptNotify)
    /\ SF_vars(DispatchLockDisplay)
    /\ SF_vars(DispatchClients)
    /\ WF_vars(DispatchFlush)
    /\ WF_vars(UpdateProcess)
    /\ SF_vars(UpdateFlush)
    /\ SF_vars(FrameLock)
    /\ WF_vars(FrameDeliver)
    /\ WF_vars(FrameReturn)

LockSpec == LockInit /\ [][LockNext]_vars /\ LockFairness

\* Construction and teardown alone, against every choice of bound candidates.
CtorInit == \E tk \in TakenChoices : Fresh(tk, MaxHandles, MaxEvents, <<0, 0>>)

CtorNext ==
    \/ New
    \/ Drop
    \/ LoopCancel

CtorSpec == CtorInit /\ [][CtorNext]_vars

\* The serial counter and its callers, from a fresh counter and from one that is
\* about to wrap.
SerialInit ==
    \E serial \in {<<0, 0>>, <<LimbModulus - 1, LimbModulus - 2>>} :
        Fresh({}, MaxHandles, MaxEvents, serial)

SerialNext == \E c \in Callers : SerialCall(c) \/ SerialInc(c) \/ SerialReturn(c)

SerialSpec == SerialInit /\ [][SerialNext]_vars


\* ------------------------------------------------------------------ helpers

Range(q) == {q[i] : i \in DOMAIN q}
Count(q, x) == Cardinality({i \in DOMAIN q : q[i] = x})
InFlight == IF curHandle # 0 THEN <<curHandle>> ELSE <<>>

\* ----------------------------------------------------------------------- C1

\* C1 as amended: a connection whose insert_client succeeded has one client
\* identity and gets exactly one new_client notification carrying it, delivered
\* before the loop is back at its select; an accepted connection whose conversion
\* or insert fails gets no identity and no notification, and the loop has ended
\* with that error.
C1_OneNotificationPerClient ==
    /\ clients \subseteq accepted
    /\ Range(notified) \subseteq clients
    /\ \A c \in clients : Count(notified, c) = (IF curClient = c THEN 0 ELSE 1)
    /\ \A c \in accepted \ clients :
           /\ Count(notified, c) = 0
           /\ loopPc = "failed"
           /\ loopErr \in {"convert", "insert"}

\* C1 as claimed: every accepted connection has a client identity and exactly
\* one new_client notification (none yet only while its iteration is running).
C1_EveryAcceptedNotified ==
    \A c \in accepted :
        /\ c \in clients
        /\ Count(notified, c) = (IF curClient = c THEN 0 ELSE 1)

\* Two connections were accepted, inserted and notified, in order of arrival.
C1_Witness == notified = <<1, 2>> /\ clients = {1, 2} /\ loopPc = "select"

\* ----------------------------------------------------------------------- C2

\* The handles removed from the registry, the one in flight and the ones
\* still buffered are together the handles that entered the queue, in their order
\* of entry: each entry is removed at most once, none is skipped, removals
\* are FIFO.
C2_FifoExactlyOnce ==
    /\ enqLog = registryRemoved \o InFlight \o global_destroy_queue
    /\ \A i, j \in DOMAIN registryRemoved : i # j => registryRemoved[i] # registryRemoved[j]

\* C2: as C2_FifoExactlyOnce in every state, and under the fair select the loop
\* keeps catching up with the queue, so that every handle that entered the queue
\* is removed from the registry, once and in order of entry, unless the task ends
\* first.
C2_EachRemovedOnceInOrder ==
    /\ []C2_FifoExactlyOnce
    /\ []<>(registryRemoved = enqLog \/ ~LoopAlive)

\* More handles than the queue holds were removed, and a producer's send had to
\* wait on the way.
C2_Witness ==
    /\ Len(registryRemoved) > QueueCapacity
    /\ \E p \in Producers : blockedAt[p] >= 0

\* ----------------------------------------------------------------------- C3

\* Handles whose send is suspended.
Suspended == {pending[p] : p \in {q \in Producers : ppc[q] = "blocked"}}

\* Every requested handle is in the queue's history, suspended with its sender,
\* or was refused because the receiver is gone; none is refused while the receiver
\* exists, and the queue never holds more than 8 handles.
C3_Accounted ==
    /\ Len(global_destroy_queue) <= 8
    /\ Range(enqLog) \cap Suspended = {}
    /\ Cardinality(Range(enqLog)) + Cardinality(Suspended) + sendErrs = nextHandle - 1
    /\ Len(enqLog) = Cardinality(Range(enqLog))
    /\ (sendErrs > 0 => ~rxAlive)

C4_Scenario(n, c) ==
    /\ LoopAlive
    /\ Len(global_destroy_queue) = 8
    /\ Len(enqLog) = n
    /\ c \in Range(backlog)

C5_Ended ==
    /\ loopErr # "none" <=> loopPc = "failed"
    /\ loopErr \in {"none", "accept", "convert", "insert", "poll", "dispatch", "flush"}
    /\ loopPc = "failed" => ~rxAlive /\ displayLock # "loop" /\ stateLock # "loop"

\* C5: an Err of accept, of the stream conversion, of insert_client, of the
\* readiness poll, of dispatch_clients or of flush_clients ends the task with
\* that Err, and from then on the loop does nothing: no handle is consumed or
\* removed, no connection accepted, no client inserted or notified, no dispatch
\* round run, and the task is not started again.
C5_ErrorEndsLoop ==
    /\ []C5_Ended
    /\ [][loopPc = "failed" =>
            /\ loopPc' = "failed"
            /\ loopErr' = loopErr
            /\ UNCHANGED <<global_destroy_queue, curHandle, curClient, engineVars>>
         ]_vars

\* The loop ended on a failed flush with a connection and a handle still waiting
\* and a client that has sent requests.
C5_Witness ==
    /\ loopPc = "failed"
    /\ loopErr = "flush"
    /\ backlog # <<>>
    /\ global_destroy_queue # <<>>

\* ----------------------------------------------------------------------- C6

\* C6 as claimed: when insert_client has failed, the loop still serves the
\* clients that were registered before.
C6_InsertFailureSparesClients == (loopErr = "insert" /\ clients # {}) => LoopAlive

\* ----------------------------------------------------------------------- C7

\* The task never panics, and it is cancelled only after the Wayland was dropped.
C7_NoPanic ==
    /\ loopPc # "panicked"
    /\ loopPc = "cancelled" => join_handle = "aborted"

\* C7: dropping the Wayland cancels the task without a panic, clients in session
\* or not; the cancellation takes effect at the select, removes no queued handle,
\* accepts no connection and runs no dispatch or flush, and nothing of that
\* happens afterwards.
C7_CancelStopsAll ==
    /\ []C7_NoPanic
    /\ [][loopPc' = "cancelled" =>
            /\ loopPc \in {"select", "cancelled"}
            /\ UNCHANGED <<global_destroy_queue, engineVars>>
            /\ curHandle' = 0
            /\ curClient' = 0
         ]_vars

\* The loop was cancelled with a client in session, a handle queued and a
\* connection pending.
C7_Witness ==
    /\ loopPc = "cancelled"
    /\ clients # {}
    /\ global_destroy_queue # <<>>
    /\ backlog # <<>>

\* ----------------------------------------------------------------------- C8

\* b - a on u32 is in 1 .. 2^31 - 1: b was fetched after a, modulo wraparound.
SerialAfter(a, b) ==
    LET borrow == IF b[2] < a[2] THEN 1 ELSE 0
        lo == (b[2] - a[2]) % LimbModulus
        hi == (b[1] - a[1] - borrow) % LimbModulus
    IN  /\ hi < LimbModulus \div 2
        /\ <<hi, lo>> # <<0, 0>>

\* C8: no two calls of inc() return the same value, and a call made after another
\* one returned gets a later value, modulo the wrap of the 32-bit counter.
C8_SerialUniqueMonotonic ==
    \A i, j \in DOMAIN sret :
        /\ i # j => sret[i].value # sret[j].value
        /\ i <= sret[j].since => SerialAfter(sret[i].value, sret[j].value)

\* The counter wrapped from 2^32 - 1 to 0 between two calls ordered in real time,
\* and two overlapping calls returned in the opposite order of their fetches.
C8_Witness ==
    /\ \E i, j \in DOMAIN sret :
           /\ i <= sret[j].since
           /\ sret[i].value = <<LimbModulus - 1, LimbModulus - 1>>
           /\ sret[j].value = <<0, 0>>
    /\ \E i, j \in DOMAIN sret : i < j /\ SerialAfter(sret[j].value, sret[i].value)

\* ----------------------------------------------------------------------- C9

C10_NoPartialStartup ==
    (newCalls = 1 /\ newResult \in NewErrors) =>
        /\ loopPc = "none"
        /\ GLOBAL_DESTROY_QUEUE = 0


\* ---------------------------------------------------------------------- C11

\* C11: a Wayland that was constructed reports the lowest candidate of
\* wayland-0 .. wayland-32 that was not bound (candidate k when exactly the first
\* k are taken, the first name when none is) and its loop task was started; with
\* all 33 taken no call succeeds, no loop is started, and a call that gets as far
\* as the bind returns the bind error; the bind fails in no other case.
C11_FirstFreeCandidate ==
    /\ socket_name # -1 =>
           /\ socket_name \in SocketCandidates \ taken
           /\ \A j \in 0 .. (socket_name - 1) : j \in taken
           /\ loopPc # "none"
           /\ join_handle = "live" => loopPc = "select"
    /\ \A k \in SocketCandidates :
           (taken = 0 .. (k - 1) /\ socket_name # -1) => socket_name = k
    /\ newResult = "ok" => socket_name # -1 /\ join_handle # "none"
    /\ SocketCandidates \subseteq taken =>
           /\ socket_name = -1
           /\ loopPc = "none"
           /\ join_handle = "none"
           /\ newResult \notin {"ok", "err_loop"}
    /\ (newCalls = 1 /\ newResult = "err_bind") => SocketCandidates \subseteq taken
    /\ (newCalls = 1 /\ newResult \in {"ok", "err_loop"}) => ~(SocketCandidates \subseteq taken)

\* With the first 7 candidates taken, construction reported wayland-7 and the loop
\* runs.
C11_Witness ==
    /\ taken = 0 .. 6
    /\ newResult = "ok"
    /\ socket_name = 7
    /\ loopPc = "select"


\* ---------------------------------------------------------------------- C19

\* C19: once a call of new has installed the sender, the cell keeps that sender
\* for the rest of the process, and every later call either stops before the
\* install (no EGL backend, no renderer, no display) or panics at it: none
\* returns a server or the bind or loop-setup error, whether the installing call
\* failed afterwards or its server was dropped since.
C19_InstalledOnce ==
    /\ [](GLOBAL_DESTROY_QUEUE # 0 =>
              \A loopSetupOk \in BOOLEAN : NewResult(TRUE, TRUE, TRUE, loopSetupOk) = "panic")
    /\ [][GLOBAL_DESTROY_QUEUE # 0 =>
              /\ GLOBAL_DESTROY_QUEUE' = GLOBAL_DESTROY_QUEUE
              /\ newCalls' # newCalls =>
                     /\ newResult' \in {"err_egl", "err_renderer", "err_display", "panic"}
                     /\ socket_name' = socket_name
                     /\ join_handle' = join_handle
                     /\ loopPc' = loopPc]_vars

\* A second construction after the first server was dropped and its loop
\* cancelled has panicked at the install.
C19_Witness ==
    /\ newCalls = 2
    /\ GLOBAL_DESTROY_QUEUE = 1
    /\ join_handle = "aborted"
    /\ loopPc = "cancelled"
    /\ newResult = "panic"


\* ---------------------------------------------------------------------- C12

\* C12: every removal of a global is a step of the loop's destruction branch,
\* made while the loop has the state lock: at no removal is a mutex held by the
\* render thread, so no removal falls into frame_event's pass under the state
\* lock or update's flush under the display lock.
C12_RemovalUnderStateLock ==
    [][registryRemoved' # registryRemoved =>
           /\ loopPc = "destroy"
           /\ registryRemoved' = Append(registryRemoved, curHandle)
           /\ stateLock # "render"
           /\ displayLock # "render"]_vars


\* ---------------------------------------------------------------------- C13

\* C13: whenever the loop task is suspended at the select, or has not started or
\* has ended, it holds neither the display lock nor the state lock; the loop
\* holds the display lock only inside the dispatch branch and the state lock for
\* no longer than one statement; and while the render thread waits in update()
\* for a display lock the loop holds, the loop's next step needs no wait.
C13_NoLockAcrossSelect ==
    /\ loopPc \in {"none", "select", "failed", "cancelled", "panicked"} =>
           displayLock # "loop" /\ stateLock # "loop"
    /\ displayLock = "loop" <=> loopPc \in {"d_state", "d_flush"}
    /\ stateLock # "loop"
    /\ (rpc = "update" /\ displayLock = "loop") => ENABLED (DispatchClients \/ DispatchFlush)

\* The loop is back at the select after a complete dispatch round and the display
\* lock it held is free again; update() has since taken it for its flush.
C13_Witness ==
    /\ loopPc = "select"
    /\ rounds = <<1, 1, 1>>
    /\ displayLock = "free"
    /\ rpc = "updated"


\* ---------------------------------------------------------------------- C14

\* The loop is at a lock() it cannot get: state for new_client, display and then
\* state for the dispatch round.
C14_LoopBlocked ==
    /\ loopPc \in {"notify", "d_display", "d_state"}
    /\ ~ENABLED (AcceptNotify \/ DispatchLockDisplay \/ DispatchClients)

\* The render thread is inside update() or frame_event() and cannot take a step.
C14_RenderBlocked ==
    /\ rpc \in {"update", "fe_lock", "frame"}
    /\ ~ENABLED RenderNext

\* C14: in no reachable state the loop and the render thread are both blocked on
\* a mutex, and every lock request is granted: the loop's for the state lock
\* before new_client, for the display lock and for the state lock of a dispatch
\* round, the render thread's for the state lock in frame_event() and for the
\* display lock in update().
C14_NoDeadlock ==
    /\ [](~(C14_LoopBlocked /\ C14_RenderBlocked))
    /\ (loopPc = "notify") ~> (loopPc = "select")
    /\ (loopPc = "d_display") ~> (displayLock = "loop")
    /\ (loopPc = "d_state") ~> (loopPc \in {"d_flush", "failed"})
    /\ (rpc = "fe_lock") ~> (rpc = "frame")
    /\ (rpc = "update") ~> (rpc \in {"updated", "panicked"})

\* The loop holds the display lock and waits for the state lock, which
\* frame_event() holds.
C14_Witness ==
    /\ loopPc = "d_state"
    /\ displayLock = "loop"
    /\ stateLock = "render"
    /\ rpc = "frame"


\* ---------------------------------------------------------------------- C15

\* C15: a readiness event is handled by one dispatch round, then one flush, both
\* under the display lock, then the clearing of readiness: flushes never outnumber
\* dispatch rounds, which are at most one ahead and only between the two steps or
\* after a flush that failed; readiness is cleared once per successful flush, in
\* the step that flushed, and in no step of a handling whose dispatch round or
\* flush fails, which leaves the poll fd readable.
C15_DispatchFlushClear ==
    /\ [](/\ rounds[2] = rounds[3]
          /\ rounds[1] - rounds[2] \in {0, 1}
          /\ rounds[1] = rounds[2] + 1 <=> (loopPc = "d_flush" \/ loopErr = "flush")
          /\ loopPc \in {"d_state", "d_flush"} => ready /\ displayLock = "loop"
          /\ loopErr \in {"dispatch", "flush"} => ready)
    /\ [][/\ rounds'[1] # rounds[1] =>
                 /\ loopPc = "d_state" /\ displayLock = "loop" /\ loopPc' = "d_flush"
                 /\ rounds' = [rounds EXCEPT ![1] = @ + 1]
                 /\ ready'
          /\ rounds'[2] # rounds[2] =>
                 /\ loopPc = "d_flush" /\ displayLock = "loop" /\ loopPc' = "select"
                 /\ rounds' = [rounds EXCEPT ![2] = @ + 1, ![3] = @ + 1]
                 /\ ~ready'
          /\ (ready /\ ~ready') => rounds'[3] = rounds[3] + 1
          /\ (loopPc \in {"d_state", "d_flush"} /\ loopPc' = "failed") =>
                 ready' /\ rounds' = rounds]_vars

\* After one complete handling, a second one made its dispatch round and failed
\* in the flush: readiness was cleared once and is set.
C15_Witness ==
    /\ rounds = <<2, 1, 1>>
    /\ loopErr = "flush"
    /\ ready


\* ---------------------------------------------------------------------- C16

\* C16: frame_event() holds the state lock from before its first frame delivery
\* until it returns, and only then; while it does, the loop makes no dispatch
\* round and no new_client notification and the output configuration does not
\* change, so all surfaces of one call are passed the same output configuration;
\* update() holds no mutex while it processes surfaces, and the render thread
\* holds the display lock for no longer than update()'s flush statement.
C16_FramePassExclusive ==
    /\ [](/\ stateLock = "render" <=> rpc = "frame"
          /\ rpc = "frame" => frameOut \subseteq {output}
          /\ rpc \in {"frame", "framed"} => Cardinality(frameOut) <= 1
          /\ (rpc \in {"frame", "framed"} /\ snap \ todo # {}) => frameOut # {}
          /\ rpc = "update" => stateLock # "render"
          /\ displayLock # "render")
    /\ [][rpc = "frame" =>
              /\ rounds'[1] = rounds[1]
              /\ notified' = notified
              /\ output' = output]_vars

\* frame_event() has delivered to both surfaces of its pass and still holds the
\* state lock; the loop has inserted a client and waits for the lock to notify.
C16_Witness ==
    /\ rpc = "frame"
    /\ Cardinality(snap) = 2
    /\ todo = {}
    /\ stateLock = "render"
    /\ loopPc = "notify"


\* ---------------------------------------------------------------------- C17

\* C17: the task is cancelled only at the select, after abort(); a branch body
\* that has started is left only by its own step: from the state after recv() the
\* loop goes on only by removing the received handle, from the state after
\* insert_client only by the new_client notification of the inserted client. So
\* in a cancelled task every handle taken from the queue was removed and every
\* client was notified once, also when abort() came during the iteration.
C17_CancelOnlyAtSelect ==
    /\ [](loopPc = "cancelled" =>
              /\ enqLog = registryRemoved \o global_destroy_queue
              /\ \A c \in clients : Count(notified, c) = 1)
    /\ [][/\ (loopPc' = "cancelled" /\ loopPc # "cancelled") =>
                 loopPc = "select" /\ join_handle = "aborted"
          /\ loopPc = "destroy" =>
                 \/ loopPc' = "destroy" /\ curHandle' = curHandle
                 \/ loopPc' = "select" /\ registryRemoved' = Append(registryRemoved, curHandle)
          /\ loopPc = "notify" =>
                 \/ loopPc' = "notify" /\ curClient' = curClient
                 \/ loopPc' = "select" /\ notified' = Append(notified, curClient)]_vars

\* The Wayland was dropped while the loop holds a handle it received and has not
\* removed yet.
C17_Witness ==
    /\ join_handle = "aborted"
    /\ loopPc = "destroy"
    /\ curHandle # 0


\* ---------------------------------------------------------------------- C18

\* C18: while the loop runs the static holds a sender, and the static never loses
\* the sender it holds; so recv() on the empty queue stays pending instead of
\* yielding None, and the loop never ends by the panic of e.unwrap(), whatever the
\* producers sent and whether any of them is left.
C18_QueueNeverClosed ==
    /\ [](/\ LoopAlive => SenderAlive
          /\ (loopPc = "select" /\ global_destroy_queue = <<>>) => ~ENABLED DestroyRecv
          /\ loopPc # "panicked")
    /\ [][GLOBAL_DESTROY_QUEUE # 0 => GLOBAL_DESTROY_QUEUE' # 0]_vars

\* The producers have made all their requests and none has a send in progress;
\* the loop has removed every handle and waits at the select on the empty queue.
C18_Witness ==
    /\ loopPc = "select"
    /\ global_destroy_queue = <<>>
    /\ nextHandle > handleBudget
    /\ \A p \in Producers : ppc[p] = "idle"
    /\ Len(registryRemoved) = handleBudget


\* ---------------------------------------------------------------------- C20

\* C20: the listening socket's descriptor is open while the loop runs and has been
\* closed exactly once when the task has ended, by cancellation or by an error;
\* it is never closed a second time.
C20_ListenFdClosedOnce ==
    /\ loopPc # "none" => fdCloses <= 1
    /\ LoopAlive => fdCloses = 0
    /\ loopPc \in {"failed", "cancelled", "panicked"} => fdCloses = 1


====
